---- MODULE Spec2Model ----
(***************************************************************************)
(* Step semantics of baseg's multi-task segmentation modules:              *)
(*   src/src/baseg/modules/multi.py        MultiTaskModule                 *)
(*   src/src/baseg/modules.py              MMSegModule                     *)
(*   src/src/baseg/models/encoder_decoder.py  CustomEncoderDecoder         *)
(*                                                                         *)
(* A tensor is a record [shape, dtype, data] with data in row-major order. *)
(* Real-valued quantities (logits, losses, the auxiliary factor) are       *)
(* integers; the logistic transform is tabulated in percent.  Every call a *)
(* step makes on a collaborator (batch lookup, model, loss, metric, log)   *)
(* is appended, in program order, to the trace of that step.               *)
(***************************************************************************)
EXTENDS Integers, Sequences, FiniteSets, TLC

VARIABLES
    config,     \* config.decode_head's "aux_factor" entry: [present, value]
    cfg_read,   \* that entry as the latest construction found it
    n_built,    \* number of MultiTaskModule objects built from config so far
    module,     \* the module the trainer is driving
    batch,      \* the batch handed to the step (a dict of tensors)
    trace,      \* collaborator calls of the latest operation, in order
    ret,        \* what the latest operation returned
    last_op     \* name of the latest operation

vars == <<config, cfg_read, n_built, module, batch, trace, ret, last_op>>

-----------------------------------------------------------------------------
(* Bounds of the model *)

\* largest number of label pixels (B*H*W) of a batch or tile batch
MaxPixels == 2
\* how many MultiTaskModule objects are built from one configuration object
MaxBuilds == 2
\* channels of the input image
NumBands == 2
\* config.decode_head.aux_classes
NumAuxClasses == 2

(* Program constants *)

IgnoreIndex == 255
PositiveClass == 1
DefaultAuxFactor == 1
NumSeverityClasses == 5

\* aux_factor values a configuration may carry (stand-ins for floats)
ConfiguredFactors == {0, 2}
\* delineation label values: background, burned, a higher severity grade
DelValues == {0, 1, 2}
\* land-cover labels of n pixels: class 3, but for k leading pixels that the
\* data set left unlabelled (255)
LcFields(n) == {[i \in 1..n |-> IF i <= k THEN IgnoreIndex ELSE 3] : k \in {0, 1}}
\* values a loss collaborator may return
LossValues == {1, 3}

\* the weights the network may carry when a step calls it
Seeds == {0, 1}

-----------------------------------------------------------------------------
(* Tensors *)

RECURSIVE Numel(_)
Numel(shape) == IF shape = <<>> THEN 1 ELSE shape[1] * Numel(Tail(shape))

Tensor(shape, dtype, data) == [shape |-> shape, dtype |-> dtype, data |-> data]

NoTensor == Tensor(<<>>, "none", <<>>)

\* shapes <<B, H, W>> with at most MaxPixels pixels
LabelShapes ==
    {s \in (1..MaxPixels) \X (1..MaxPixels) \X (1..MaxPixels) : Numel(s) <= MaxPixels}

\* t.long()
Long(t) == Tensor(t.shape, "int64", t.data)

\* t.float()
Float(t) == Tensor(t.shape, "float32", t.data)

\* t.squeeze(1): axis 1 is removed only when its size is 1
Squeeze1(t) ==
    IF Len(t.shape) >= 2 /\ t.shape[2] = 1
    THEN Tensor(<<t.shape[1]>> \o SubSeq(t.shape, 3, Len(t.shape)), t.dtype, t.data)
    ELSE t

\* t.argmax(1) of a 4-d tensor [B, K, H, W]: first index of the maximum over K
Argmax1(t) ==
    LET B == t.shape[1]
        K == t.shape[2]
        H == t.shape[3]
        W == t.shape[4]
        At(b, k, p) == t.data[(b * K + k) * (H * W) + p + 1]
        Best(b, p) ==
            CHOOSE k \in 0..(K - 1) :
                /\ \A j \in 0..(K - 1) : At(b, j, p) <= At(b, k, p)
                /\ \A j \in 0..(k - 1) : At(b, j, p) < At(b, k, p)
    IN  Tensor(<<B, H, W>>, "int64",
               [i \in 1..(B * H * W) |-> Best((i - 1) \div (H * W), (i - 1) % (H * W))])

\* logistic function of a small integer score, in percent
SigmoidPct(v) ==
    CASE v <= -2 -> 12
      [] v = -1 -> 27
      [] v = 0 -> 50
      [] v = 1 -> 73
      [] v = 2 -> 88
      [] v = 3 -> 95
      [] OTHER -> 98

\* torch.sigmoid(t), elementwise; integer inputs are promoted to float
Sigmoid(t) ==
    Tensor(t.shape, "float32", [i \in 1..Len(t.data) |-> SigmoidPct(t.data[i])])

\* t > 0.5 for a tensor of probabilities (percent)
GreaterThanHalf(t) ==
    Tensor(t.shape, "bool", [i \in 1..Len(t.data) |-> IF t.data[i] > 50 THEN 1 ELSE 0])

\* t[0]: the first element along the batch axis
Select0(t) ==
    LET rest == Tail(t.shape)
    IN  Tensor(rest, t.dtype, SubSeq(t.data, 1, Numel(rest)))

\* a leading axis of size 1 (how the tiler hands one tile to the callback)
Unsqueeze0(t) == Tensor(<<1>> \o t.shape, t.dtype, t.data)

-----------------------------------------------------------------------------
(* The model: CustomEncoderDecoder._forward *)

\* score the network with weights `seed` puts at flat position i
Logit(seed, i) == ((i * (seed + 1) + seed) % 3) - 1

\* one head's output, interpolated to the input's spatial size
HeadOut(x, channels, seed) ==
    LET shape == <<x.shape[1], channels, x.shape[3], x.shape[4]>>
    IN  Tensor(shape, "float32", [i \in 1..Numel(shape) |-> Logit(seed, i)])

\* x_h1, x_h2 = decode_head(x), auxiliary_head(x), both at inputs.shape[2:]
Forward(x, decode_channels, seed) ==
    [decode |-> HeadOut(x, decode_channels, seed),
     auxiliary |-> HeadOut(x, NumAuxClasses, seed + 1)]

-----------------------------------------------------------------------------
(* Trace events *)

Ev(ev, name, args, outs, val) ==
    [ev |-> ev, name |-> name, args |-> args, outs |-> outs, val |-> val]

GetItem(key) == Ev("getitem", key, <<>>, <<>>, 0)
SetItem(key, t) == Ev("setitem", key, <<t>>, <<>>, 0)
ModelCall(x, out) == Ev("model", "model", <<x>>, <<out.decode, out.auxiliary>>, 0)
LossCall(name, pred, target, val) == Ev("loss", name, <<pred, target>>, <<>>, val)
MetricCall(name, pred, target) == Ev("metric", name, <<pred, target>>, <<>>, 0)
LogScalar(key, val) == Ev("log", key, <<>>, <<>>, val)
LogMetric(key) == Ev("log_metric", key, <<>>, <<>>, 0)

NoRet == [kind |-> "none", val |-> 0, t |-> NoTensor]

-----------------------------------------------------------------------------
(* Configuration and construction *)

NoEntry == [present |-> FALSE, value |-> 0]
Entry(v) == [present |-> TRUE, value |-> v]

\* the states config.decode_head's aux_factor entry may start in
Configs == {NoEntry} \cup {Entry(v) : v \in ConfiguredFactors}

\* variant: config.decode_head.get("aux_factor", 1.0), the entry left in place
GetAuxFactor(cfg) ==
    [value |-> IF cfg.present THEN cfg.value ELSE DefaultAuxFactor, rest |-> cfg]

\* config.decode_head.pop("aux_factor", 1.0): the value read, the entry removed
PopAuxFactor(cfg) ==
    [value |-> IF cfg.present THEN cfg.value ELSE DefaultAuxFactor, rest |-> NoEntry]

\* metric names a split's delineation ModuleDict holds, in insertion order
DelMetricNames(split) ==
    CASE split = "train" -> <<"train_f1", "train_iou">>
      [] split = "val" -> <<"val_f1", "val_iou">>
      [] split = "test" -> <<"test_f1", "test_iou">>

\* metric names a split's auxiliary ModuleDict holds, in insertion order
AuxMetricNames(split) ==
    CASE split = "train" -> <<"train_f1_aux", "train_iou_aux">>
      [] split = "val" -> <<"val_f1_aux", "val_iou_aux">>
      [] split = "test" -> <<"test_f1_aux", "test_iou_aux">>

Splits == {"train", "val", "test"}

\* BaseModule.__init__: the binary delineation metric sets of the three splits
BaseMetrics == [s \in Splits |-> DelMetricNames(s)]

\* the severity branch of __init__ replaces the three delineation sets
SeverityMetrics == [s \in Splits |-> DelMetricNames(s)]

\* the criterion_decode that __init__ picks from severity and loss
DecodeCriterion(severity, loss) ==
    IF severity THEN "CrossEntropyLoss"
    ELSE IF loss = "bce" THEN "SoftBCEWithLogitsLoss" ELSE "DiceLoss"

\* the values of the loss argument: "bce", or anything else
LossNames == {"bce", "dice"}

\* MultiTaskModule(config, mask_lc=..., loss=..., severity=...) on an entry cfg
NewMultiTaskModule(cfg, mask_lc, loss, severity) ==
    [kind |-> "MultiTaskModule",
     severity |-> severity,
     criterion_decode |-> DecodeCriterion(severity, loss),
     mask_lc |-> mask_lc,
     aux_factor |-> PopAuxFactor(cfg).value,
     decode_channels |-> IF severity THEN NumSeverityClasses ELSE 1,
     metrics |-> IF severity THEN SeverityMetrics ELSE BaseMetrics,
     metrics_aux |-> [s \in Splits |-> AuxMetricNames(s)]]

\* MMSegModule(config): binary, no masking, no weight factor, shared metrics
NewMMSegModule ==
    [kind |-> "MMSegModule",
     severity |-> FALSE,
     criterion_decode |-> "SoftBCEWithLogitsLoss",
     mask_lc |-> FALSE,
     aux_factor |-> DefaultAuxFactor,
     decode_channels |-> 1,
     metrics |-> [s \in Splits |-> <<"f1_del", "iou_del">>],
     metrics_aux |-> [s \in Splits |-> <<"f1_aux", "iou_aux">>]]

-----------------------------------------------------------------------------
(* Batches *)

NoBatch ==
    [loaded |-> FALSE, img |-> NoTensor, del |-> NoTensor, lc |-> NoTensor,
     pred |-> NoTensor]

\* an image (or tile batch) [B, NumBands, H, W] for labels of shape <<B, H, W>>
ImageOf(s) ==
    LET shape == <<s[1], NumBands, s[2], s[3]>>
    IN  Tensor(shape, "float32", [i \in 1..Numel(shape) |-> i % 3])

\* the batches the data loader may yield
Batches ==
    UNION {
        {[loaded |-> TRUE,
          img |-> ImageOf(s),
          del |-> Tensor(s, "uint8", d),
          lc |-> Tensor(s, "uint8", l),
          pred |-> NoTensor] :
            d \in [1..Numel(s) -> DelValues], l \in LcFields(Numel(s))} :
        s \in LabelShapes}

-----------------------------------------------------------------------------
(* MultiTaskModule: the pieces of a step *)

\* variant: the background class is masked instead of the positive class
MaskLcBackground(y_del, y_lc) ==
    Tensor(y_lc.shape, y_lc.dtype,
           [i \in 1..Len(y_lc.data) |->
               IF y_del.data[i] = 0 THEN IgnoreIndex ELSE y_lc.data[i]])

\* variant: every pixel with a non-zero delineation label is masked (y_del > 0)
MaskLcNonzero(y_del, y_lc) ==
    Tensor(y_lc.shape, y_lc.dtype,
           [i \in 1..Len(y_lc.data) |->
               IF y_del.data[i] > 0 THEN IgnoreIndex ELSE y_lc.data[i]])

\* y_lc[y_del == 1] = 255, in place
MaskLc(y_del, y_lc) ==
    Tensor(y_lc.shape, y_lc.dtype,
           [i \in 1..Len(y_lc.data) |->
               IF y_del.data[i] = PositiveClass THEN IgnoreIndex ELSE y_lc.data[i]])

\* variant: the binary pair whatever the mode
DecodeArgsBinary(m, decode_out, y_del) == <<Squeeze1(decode_out), Float(y_del)>>

\* the (prediction, target) pair of the delineation loss and metrics
DecodeArgs(m, decode_out, y_del) ==
    IF m.severity
    THEN <<decode_out, Long(y_del)>>
    ELSE <<Squeeze1(decode_out), Float(y_del)>>

\* variant: the factor left out
CompositeLossUnweighted(m, loss_decode, loss_auxiliary) == loss_decode + loss_auxiliary

\* loss = loss_decode + self.aux_factor * loss_auxiliary
CompositeLoss(m, loss_decode, loss_auxiliary) ==
    loss_decode + m.aux_factor * loss_auxiliary

\* the three self.log calls of the losses
LossLogs(split, loss_decode, loss_auxiliary, loss) ==
    CASE split = "train" ->
            <<LogScalar("train_loss_del", loss_decode),
              LogScalar("train_loss_aux", loss_auxiliary),
              LogScalar("train_loss", loss)>>
      [] split = "val" ->
            <<LogScalar("val_loss_del", loss_decode),
              LogScalar("val_loss_aux", loss_auxiliary),
              LogScalar("val_loss", loss)>>

\* variant: the accumulator is logged but never updated
MetricEventsLogOnly(names, pred, target) == [i \in 1..Len(names) |-> LogMetric(names[i])]

\* for metric_name, metric in metrics.items(): metric(pred, target); self.log(...)
MetricEvents(names, pred, target) ==
    [i \in 1..(2 * Len(names)) |->
        IF i % 2 = 1
        THEN MetricCall(names[(i + 1) \div 2], pred, target)
        ELSE LogMetric(names[i \div 2])]

\* training_step / validation_step: the two bodies differ in the split prefix only
StepEvents(m, split, b, seed, loss_decode, loss_auxiliary) ==
    LET x == b.img
        y_del == b.del
        y_lc == IF m.mask_lc THEN MaskLc(y_del, b.lc) ELSE b.lc
        out == Forward(x, m.decode_channels, seed)
        dargs == DecodeArgs(m, out.decode, y_del)
        loss == CompositeLoss(m, loss_decode, loss_auxiliary)
    IN  <<GetItem("img"), GetItem("del"), GetItem("lc")>>
        \o (IF m.mask_lc THEN <<SetItem("lc", y_lc)>> ELSE <<>>)
        \o <<ModelCall(x, out),
             LossCall("criterion_decode", dargs[1], dargs[2], loss_decode),
             LossCall("criterion_auxiliary", out.auxiliary, Long(y_lc), loss_auxiliary)>>
        \o LossLogs(split, loss_decode, loss_auxiliary, loss)
        \o MetricEvents(m.metrics[split], dargs[1], dargs[2])
        \o MetricEvents(m.metrics_aux[split], out.auxiliary, Long(y_lc))

\* the batch after a training or validation step: y_lc aliases batch[lc_label]
StepBatch(m, b) ==
    IF m.mask_lc THEN [b EXCEPT !.lc = MaskLc(b.del, b.lc)] ELSE b

\* variant: test_step with its commented-out auxiliary lines active
TestEventsWithAux(m, b, seed, loss_decode) ==
    LET x == b.img
        y_del == b.del
        y_lc == b.lc
        out == Forward(x, m.decode_channels, seed)
        dargs == DecodeArgs(m, out.decode, y_del)
    IN  <<GetItem("img"), GetItem("del"), GetItem("lc"),
          ModelCall(x, out),
          LossCall("criterion_decode", dargs[1], dargs[2], loss_decode),
          LossCall("criterion_auxiliary", out.auxiliary, Long(y_lc), loss_decode)>>
        \o MetricEvents(m.metrics["test"], dargs[1], dargs[2])
        \o MetricEvents(m.metrics_aux["test"], out.auxiliary, Long(y_lc))

\* test_step: the land-cover label, the auxiliary loss, the loss logs and the
\* auxiliary metrics are commented out in the source
TestEvents(m, b, seed, loss_decode) ==
    LET x == b.img
        y_del == b.del
        out == Forward(x, m.decode_channels, seed)
        dargs == DecodeArgs(m, out.decode, y_del)
    IN  <<GetItem("img"), GetItem("del"),
          ModelCall(x, out),
          LossCall("criterion_decode", dargs[1], dargs[2], loss_decode)>>
        \o MetricEvents(m.metrics["test"], dargs[1], dargs[2])

Scalar(v) == [kind |-> "scalar", val |-> v, t |-> NoTensor]

-----------------------------------------------------------------------------
(* Tiled prediction *)

\* the closure predict_step hands to the tiler
Callback(m, tile, seed) ==
    LET out == Forward(tile, m.decode_channels, seed)
    IN  [result |-> IF m.severity
                    THEN Squeeze1(Argmax1(out.decode))
                    ELSE Squeeze1(out.decode),
         events |-> <<ModelCall(tile, out)>>]

\* a tiler on an image of exactly one tile calls the callback once, on that
\* image as a batch of one tile ...
TilerTile(image) == Unsqueeze0(image)

\* ... and hands the callback's result back unchanged
TilerStitch(result) == result

\* variant: the raw scores are stored
PredictionRaw(full_pred) == full_pred

\* batch["pred"] = torch.sigmoid(full_pred)
Prediction(full_pred) == Sigmoid(full_pred)

-----------------------------------------------------------------------------
(* Actions *)

\* the trainer calls a step once on each batch it fetches
Fetched == batch.loaded /\ last_op = "load"

\* a further MultiTaskModule is built from the same configuration object
MultiTaskModule_init ==
    /\ n_built < MaxBuilds
    /\ ~batch.loaded
    /\ \E mask_lc \in BOOLEAN, loss \in LossNames, severity \in BOOLEAN :
          module' = NewMultiTaskModule(config, mask_lc, loss, severity)
    /\ config' = PopAuxFactor(config).rest
    /\ cfg_read' = config
    /\ n_built' = n_built + 1
    /\ trace' = <<>>
    /\ ret' = NoRet
    /\ last_op' = "__init__"
    /\ UNCHANGED batch

\* the trainer fetches the next batch from the data loader
LoadBatch ==
    /\ ~batch.loaded
    /\ \E b \in Batches : batch' = b
    /\ trace' = <<>>
    /\ ret' = NoRet
    /\ last_op' = "load"
    /\ UNCHANGED <<config, cfg_read, n_built, module>>

training_step ==
    /\ module.kind = "MultiTaskModule"
    /\ Fetched
    /\ \E seed \in Seeds, ld \in LossValues, la \in LossValues :
          /\ trace' = StepEvents(module, "train", batch, seed, ld, la)
          /\ ret' = Scalar(CompositeLoss(module, ld, la))
    /\ batch' = StepBatch(module, batch)
    /\ last_op' = "training_step"
    /\ UNCHANGED <<config, cfg_read, n_built, module>>

validation_step ==
    /\ module.kind = "MultiTaskModule"
    /\ Fetched
    /\ \E seed \in Seeds, ld \in LossValues, la \in LossValues :
          /\ trace' = StepEvents(module, "val", batch, seed, ld, la)
          /\ ret' = Scalar(CompositeLoss(module, ld, la))
    /\ batch' = StepBatch(module, batch)
    /\ last_op' = "validation_step"
    /\ UNCHANGED <<config, cfg_read, n_built, module>>

test_step ==
    /\ module.kind = "MultiTaskModule"
    /\ Fetched
    /\ \E seed \in Seeds, ld \in LossValues :
          /\ trace' = TestEvents(module, batch, seed, ld)
          /\ ret' = Scalar(ld)
    /\ last_op' = "test_step"
    /\ UNCHANGED <<config, cfg_read, n_built, module, batch>>

predict_step ==
    /\ module.kind = "MultiTaskModule"
    /\ Fetched
    /\ \E seed \in Seeds :
          LET full_image == batch.img
              r == Callback(module, TilerTile(Select0(full_image)), seed)
              full_pred == TilerStitch(r.result)
              pred == Prediction(full_pred)
          IN  /\ batch' = [batch EXCEPT !.pred = pred]
              /\ trace' = <<GetItem("img")>> \o r.events \o <<SetItem("pred", pred)>>
              /\ ret' = [kind |-> "batch", val |-> 0, t |-> pred]
    /\ last_op' = "predict_step"
    /\ UNCHANGED <<config, cfg_read, n_built, module>>

\* a tiler calls the predict callback on one tile batch [B, C, H_tile, W_tile]
\* of its own making
callback ==
    /\ module.kind = "MultiTaskModule"
    /\ ~batch.loaded
    /\ \E s \in LabelShapes, seed \in Seeds :
          LET r == Callback(module, ImageOf(s), seed)
          IN  /\ trace' = r.events
              /\ ret' = [kind |-> "tensor", val |-> 0, t |-> r.result]
    /\ last_op' = "callback"
    /\ UNCHANGED <<config, cfg_read, n_built, module, batch>>

-----------------------------------------------------------------------------
(* MMSegModule *)

\* loss = loss_decode + loss_auxiliary
MMSegLoss(loss_decode, loss_auxiliary) == loss_decode + loss_auxiliary

\* the seven self.log calls of a step
MMSegLogs(split, loss_decode, loss_auxiliary, loss) ==
    CASE split = "train" ->
            <<LogScalar("train_loss_del", loss_decode),
              LogScalar("train_loss_aux", loss_auxiliary),
              LogScalar("train_loss_tot", loss),
              LogMetric("train_f1_del"), LogMetric("train_iou_del"),
              LogMetric("train_f1_aux"), LogMetric("train_iou_aux")>>
      [] split = "val" ->
            <<LogScalar("val_loss_del", loss_decode),
              LogScalar("val_loss_aux", loss_auxiliary),
              LogScalar("val_loss_tot", loss),
              LogMetric("val_f1_del"), LogMetric("val_iou_del"),
              LogMetric("val_f1_aux"), LogMetric("val_iou_aux")>>

\* MMSegModule.training_step / validation_step
MMSegEvents(split, b, seed, loss_decode, loss_auxiliary) ==
    LET x == b.img
        y_del == b.del
        y_lc == b.lc
        out == Forward(x, 1, seed)
        squeezed == Squeeze1(out.decode)
        hard == GreaterThanHalf(Sigmoid(squeezed))
        loss == MMSegLoss(loss_decode, loss_auxiliary)
    IN  <<GetItem("img"), GetItem("del"), GetItem("lc"),
          ModelCall(x, out),
          LossCall("criterion_decode", squeezed, Float(y_del), loss_decode),
          LossCall("criterion_auxiliary", out.auxiliary, Long(y_lc), loss_auxiliary),
          MetricCall("f1_del", hard, Float(y_del)),
          MetricCall("iou_del", hard, Float(y_del)),
          MetricCall("f1_aux", Argmax1(out.auxiliary), Long(y_lc)),
          MetricCall("iou_aux", Argmax1(out.auxiliary), Long(y_lc))>>
        \o MMSegLogs(split, loss_decode, loss_auxiliary, loss)

MMSeg_training_step ==
    /\ module.kind = "MMSegModule"
    /\ Fetched
    /\ \E seed \in Seeds, ld \in LossValues, la \in LossValues :
          /\ trace' = MMSegEvents("train", batch, seed, ld, la)
          /\ ret' = Scalar(MMSegLoss(ld, la))
    /\ last_op' = "MMSeg.training_step"
    /\ UNCHANGED <<config, cfg_read, n_built, module, batch>>

MMSeg_validation_step ==
    /\ module.kind = "MMSegModule"
    /\ Fetched
    /\ \E seed \in Seeds, ld \in LossValues, la \in LossValues :
          /\ trace' = MMSegEvents("val", batch, seed, ld, la)
          /\ ret' = Scalar(MMSegLoss(ld, la))
    /\ last_op' = "MMSeg.validation_step"
    /\ UNCHANGED <<config, cfg_read, n_built, module, batch>>

\* the trainer ends the iteration and lets go of the batch; after a predict
\* step on_predict_batch_end hands the batch to predict_callback first
on_batch_end ==
    /\ batch.loaded
    /\ last_op # "load"
    /\ trace' = IF last_op = "predict_step"
                THEN <<Ev("predict_callback", "batch", <<batch.pred>>, <<>>, 0)>>
                ELSE <<>>
    /\ batch' = NoBatch
    /\ ret' = NoRet
    /\ last_op' = "on_batch_end"
    /\ UNCHANGED <<config, cfg_read, n_built, module>>

-----------------------------------------------------------------------------
(* Specification *)

\* a module has been constructed from a configuration; no batch has arrived
Init ==
    /\ \E cfg \in Configs :
          /\ cfg_read = cfg
          /\ \/ /\ \E mask_lc \in BOOLEAN, loss \in LossNames, severity \in BOOLEAN :
                      module = NewMultiTaskModule(cfg, mask_lc, loss, severity)
                /\ config = PopAuxFactor(cfg).rest
                /\ n_built = 1
             \/ /\ module = NewMMSegModule
                /\ config = cfg
                /\ n_built = 0
    /\ batch = NoBatch
    /\ trace = <<>>
    /\ ret = NoRet
    /\ last_op = "__init__"

Next ==
    \/ MultiTaskModule_init
    \/ LoadBatch
    \/ training_step
    \/ validation_step
    \/ test_step
    \/ predict_step
    \/ callback
    \/ MMSeg_training_step
    \/ MMSeg_validation_step
    \/ on_batch_end

Spec == Init /\ [][Next]_vars

-----------------------------------------------------------------------------
(* Reading the trace of the latest operation *)

\* positions of the calls of kind ev on the collaborator called name
Calls(ev, name) == {i \in DOMAIN trace : trace[i].ev = ev /\ trace[i].name = name}

\* positions of all calls of kind ev
CallsOfKind(ev) == {i \in DOMAIN trace : trace[i].ev = ev}

Range(seq) == {seq[i] : i \in DOMAIN seq}

AllAuxMetricNames == UNION {Range(AuxMetricNames(s)) : s \in Splits}
AllDelMetricNames == UNION {Range(DelMetricNames(s)) : s \in Splits}

TrainValOps == {"training_step", "validation_step"}
StepOps == {"training_step", "validation_step", "test_step"}
MMSegOps == {"MMSeg.training_step", "MMSeg.validation_step"}

SplitOf(op) ==
    CASE op = "training_step" -> "train"
      [] op = "validation_step" -> "val"
      [] op = "test_step" -> "test"

\* the loss keys of a split
LossKeys(split) ==
    CASE split = "train" -> {"train_loss_del", "train_loss_aux", "train_loss"}
      [] split = "val" -> {"val_loss_del", "val_loss_aux", "val_loss"}
      [] split = "test" -> {"test_loss_del", "test_loss_aux", "test_loss"}

\* the factor the module in charge was to take from the configuration it was built on
ConfiguredFactor ==
    IF module.kind = "MMSegModule" THEN DefaultAuxFactor
    ELSE IF cfg_read.present THEN cfg_read.value ELSE DefaultAuxFactor

-----------------------------------------------------------------------------
(* C1: the value training_step and validation_step return is                *)
(* loss_decode + w * loss_auxiliary, for the two values the loss            *)
(* collaborators returned in that step and the factor w the configuration   *)
(* gave at construction (1 when it gave none; MMSegModule reads none).      *)
C1_CompositeLoss ==
    last_op \in TrainValOps \cup MMSegOps =>
        /\ Cardinality(Calls("loss", "criterion_decode")) = 1
        /\ Cardinality(Calls("loss", "criterion_auxiliary")) = 1
        /\ ret.kind = "scalar"
        /\ \A i \in Calls("loss", "criterion_decode") :
             \A j \in Calls("loss", "criterion_auxiliary") :
                ret.val = trace[i].val + ConfiguredFactor * trace[j].val

\* a validation step whose configured factor is not 1 and whose auxiliary loss counts
C1_Witness ==
    /\ last_op = "validation_step"
    /\ cfg_read = Entry(2)
    /\ ret.val = 7
    /\ \E j \in Calls("loss", "criterion_auxiliary") : trace[j].val = 3

(* C2: with mask_lc on, in training_step and validation_step the land-cover *)
(* label is overwritten before the model call and before every loss and     *)
(* metric call, and the auxiliary loss and every auxiliary metric receive a *)
(* land-cover target that is 255 wherever the delineation label is 1.       *)
C2_MaskBeforeAuxiliary ==
    (last_op \in TrainValOps /\ module.mask_lc) =>
        /\ Cardinality(Calls("setitem", "lc")) = 1
        /\ Cardinality(Calls("loss", "criterion_auxiliary")) = 1
        /\ \A k \in Calls("setitem", "lc") :
             \A i \in CallsOfKind("model") \cup CallsOfKind("loss") \cup CallsOfKind("metric") :
                k < i
        /\ \A i \in DOMAIN trace :
             (\/ (trace[i].ev = "loss" /\ trace[i].name = "criterion_auxiliary")
              \/ (trace[i].ev = "metric" /\ trace[i].name \in AllAuxMetricNames))
             => \A p \in DOMAIN batch.del.data :
                   batch.del.data[p] = 1 => trace[i].args[2].data[p] = 255
        /\ \A name \in Range(module.metrics_aux[SplitOf(last_op)]) :
             Calls("metric", name) # {}

\* a masked training step on a batch with a burned pixel and an unburned, labelled one
C2_Witness ==
    /\ last_op = "training_step"
    /\ module.mask_lc
    /\ \E p, q \in DOMAIN batch.del.data :
          /\ batch.del.data[p] = 1
          /\ batch.del.data[q] = 0
          /\ batch.lc.data[q] = 3
          /\ \E i \in Calls("loss", "criterion_auxiliary") :
                trace[i].args[2].data[p] = 255 /\ trace[i].args[2].data[q] = 3

(* C3: test_step returns exactly the delineation loss, calls neither the    *)
(* auxiliary loss nor any auxiliary metric of any split, and does not read  *)
(* the land-cover key of the batch, whatever mask_lc and severity are.      *)
C3_TestDelineationOnly ==
    last_op = "test_step" =>
        /\ Cardinality(Calls("loss", "criterion_decode")) = 1
        /\ \A i \in Calls("loss", "criterion_decode") :
             ret = [kind |-> "scalar", val |-> trace[i].val, t |-> NoTensor]
        /\ Calls("loss", "criterion_auxiliary") = {}
        /\ \A i \in CallsOfKind("metric") : trace[i].name \notin AllAuxMetricNames
        /\ Calls("getitem", "lc") = {}

\* a test step of a module built with masking and severity on
C3_Witness ==
    /\ last_op = "test_step"
    /\ module.mask_lc
    /\ module.severity
    /\ ret.val = 3
    /\ \E p \in DOMAIN batch.del.data : batch.del.data[p] = 1

(* C4: in training_step, validation_step and test_step the delineation     *)
(* loss receives the decode output with its class axis and an integer       *)
(* (int64) label when severity is on, and the decode output without its     *)
(* channel axis and a float label when severity is off.                     *)
C4_DecodeLossArguments ==
    last_op \in StepOps =>
        /\ Cardinality(Calls("loss", "criterion_decode")) = 1
        /\ Cardinality(CallsOfKind("model")) = 1
        /\ \A i \in Calls("loss", "criterion_decode") :
             \A f \in CallsOfKind("model") :
                LET decode_out == trace[f].outs[1]
                    pred == trace[i].args[1]
                    target == trace[i].args[2]
                    B == batch.del.shape[1]
                    H == batch.del.shape[2]
                    W == batch.del.shape[3]
                IN  /\ f < i
                    /\ target.shape = batch.del.shape
                    /\ target.data = batch.del.data
                    /\ pred.data = decode_out.data
                    /\ IF module.severity
                       THEN /\ pred.shape = <<B, NumSeverityClasses, H, W>>
                            /\ target.dtype = "int64"
                       ELSE /\ pred.shape = <<B, H, W>>
                            /\ target.dtype = "float32"

\* a test step in severity mode on a batch one pixel high
C4_Witness ==
    /\ last_op = "test_step"
    /\ module.severity
    /\ batch.del.shape = <<1, 1, 2>>
    /\ \E i \in Calls("loss", "criterion_decode") : trace[i].args[2].dtype = "int64"

\* each name of names is called exactly once in the latest step
CalledOnce(names) == \A n \in Range(names) : Cardinality(Calls("metric", n)) = 1

\* no name of names is called in the latest step
NotCalled(names) == \A n \in Range(names) : Calls("metric", n) = {}

\* the delineation metrics receive shapes fixed by the batch shape and the mode
DelMetricShapes ==
    \A i \in CallsOfKind("metric") :
        trace[i].name \in AllDelMetricNames =>
            /\ trace[i].args[2].shape = batch.del.shape
            /\ trace[i].args[1].shape =
                  IF module.severity
                  THEN <<batch.del.shape[1], NumSeverityClasses,
                         batch.del.shape[2], batch.del.shape[3]>>
                  ELSE batch.del.shape

(* C5 as stated: in each of the three steps every metric accumulator        *)
(* registered for the active split, delineation and auxiliary, is invoked   *)
(* exactly once, the accumulators of the other splits are not invoked, and  *)
(* the delineation metrics receive the same argument shapes in all steps.   *)
C5_EveryRegisteredMetricOnce ==
    last_op \in StepOps =>
        /\ CalledOnce(module.metrics[SplitOf(last_op)])
        /\ CalledOnce(module.metrics_aux[SplitOf(last_op)])
        /\ \A s \in Splits \ {SplitOf(last_op)} :
             NotCalled(module.metrics[s]) /\ NotCalled(module.metrics_aux[s])
        /\ DelMetricShapes

(* C5 as amended: training_step and validation_step invoke every            *)
(* delineation and auxiliary accumulator of their split exactly once;       *)
(* test_step invokes every delineation accumulator of the test split        *)
(* exactly once and none of the registered test auxiliary accumulators; no  *)
(* step invokes an accumulator of another split; the delineation metrics    *)
(* receive the same argument shapes in all three steps.                     *)
C5_MetricsOncePerStep ==
    last_op \in StepOps =>
        /\ CalledOnce(module.metrics[SplitOf(last_op)])
        /\ IF last_op = "test_step"
           THEN NotCalled(module.metrics_aux["test"])
           ELSE CalledOnce(module.metrics_aux[SplitOf(last_op)])
        /\ \A s \in Splits \ {SplitOf(last_op)} :
             NotCalled(module.metrics[s]) /\ NotCalled(module.metrics_aux[s])
        /\ DelMetricShapes

\* a test step: two delineation metric calls, the test auxiliary set registered
C5_Witness ==
    /\ last_op = "test_step"
    /\ Len(module.metrics_aux["test"]) = 2
    /\ Cardinality(CallsOfKind("metric")) = 2
    /\ Cardinality(Calls("metric", "test_iou")) = 1

(* C6: in binary mode, predict_step on a one-tile image stores under        *)
(* batch["pred"] the elementwise logistic transform of the callback's       *)
(* result on that image, the decode output with its channel axis squeezed.  *)
C6_OneTilePrediction ==
    (last_op = "predict_step" /\ ~module.severity) =>
        /\ Cardinality(CallsOfKind("model")) = 1
        /\ \A f \in CallsOfKind("model") :
             LET decode_out == trace[f].outs[1]
                 image == trace[f].args[1]
             IN  /\ image.data = SubSeq(batch.img.data, 1, Len(image.data))
                 /\ image.shape = <<1>> \o Tail(batch.img.shape)
                 /\ batch.pred.shape = <<1, batch.img.shape[3], batch.img.shape[4]>>
                 /\ Len(batch.pred.data) = Len(decode_out.data)
                 /\ \A p \in DOMAIN batch.pred.data :
                       batch.pred.data[p] = SigmoidPct(decode_out.data[p])

\* a binary prediction over two pixels with distinct probabilities
C6_Witness ==
    /\ last_op = "predict_step"
    /\ ~module.severity
    /\ Len(batch.pred.data) = 2
    /\ batch.pred.data[1] # batch.pred.data[2]
    /\ batch.pred.data[1] \in {27, 50, 73}

(* C7: each of training_step, validation_step and test_step logs every      *)
(* scalar loss it computes under a key of its split before it returns; in   *)
(* particular test_step logs the delineation loss it returns.               *)
C7_LossesLogged ==
    last_op \in StepOps =>
        /\ \A i \in CallsOfKind("loss") :
             \E j \in CallsOfKind("log") :
                /\ i < j
                /\ trace[j].name \in LossKeys(SplitOf(last_op))
                /\ trace[j].val = trace[i].val
        /\ \E j \in CallsOfKind("log") :
                /\ trace[j].name \in LossKeys(SplitOf(last_op))
                /\ trace[j].val = ret.val

(* C8: training_step, validation_step and test_step change nothing in the  *)
(* batch but the masked land-cover pixels: the image, the delineation       *)
(* label and every land-cover pixel keep their values, except that with     *)
(* mask_lc on training_step and validation_step set to 255 the land-cover   *)
(* pixels whose delineation label is 1; test_step changes nothing.          *)
C8_BatchFrame ==
    [][(last_op = "load" /\ last_op' \in StepOps \cup MMSegOps) =>
          /\ batch'.loaded = batch.loaded
          /\ batch'.img = batch.img
          /\ batch'.del = batch.del
          /\ batch'.pred = batch.pred
          /\ batch'.lc.shape = batch.lc.shape
          /\ batch'.lc.dtype = batch.lc.dtype
          /\ DOMAIN batch'.lc.data = DOMAIN batch.lc.data
          /\ \A p \in DOMAIN batch.lc.data :
                batch'.lc.data[p] =
                    IF /\ module.mask_lc
                       /\ last_op' \in TrainValOps
                       /\ batch.del.data[p] = 1
                    THEN 255
                    ELSE batch.lc.data[p]]_vars

\* a masked validation step that left the label of a severity-2 pixel in place
C8_Witness ==
    /\ last_op = "validation_step"
    /\ module.mask_lc
    /\ \E p, q \in DOMAIN batch.del.data :
          /\ batch.del.data[p] = 1
          /\ batch.lc.data[p] = 255
          /\ batch.del.data[q] = 2
          /\ batch.lc.data[q] = 3

(* C9: on a tile batch [B, C, H_tile, W_tile] the predict callback calls    *)
(* the model once and returns a [B, H_tile, W_tile] tensor: the squeezed    *)
(* decode output in binary mode, the arg-max class index in severity mode,  *)
(* also when H_tile = 1.                                                    *)
C9_CallbackShape ==
    last_op = "callback" =>
        /\ Cardinality(CallsOfKind("model")) = 1
        /\ \A f \in CallsOfKind("model") :
             LET tile == trace[f].args[1]
                 decode_out == trace[f].outs[1]
             IN  /\ ret.t.shape = <<tile.shape[1], tile.shape[3], tile.shape[4]>>
                 /\ ret.t.data = IF module.severity
                                 THEN Argmax1(decode_out).data
                                 ELSE decode_out.data

\* no step, prediction or batch hand-over touches the module's factor
FactorKept == last_op' # "__init__" => module'.aux_factor = module.aux_factor

(* C10: once a MultiTaskModule has been built the aux_factor entry is gone  *)
(* from config.decode_head, every further module built from that            *)
(* configuration has factor 1, and no step changes a module's factor.       *)
C10_FactorPopped ==
    /\ [](n_built >= 1 => ~config.present)
    /\ [](n_built >= 2 => module.aux_factor = DefaultAuxFactor)
    /\ [][FactorKept]_vars

\* a training step of the second module built from one configuration
C10_Witness ==
    /\ n_built = 2
    /\ last_op = "training_step"
    /\ ~cfg_read.present
    /\ ret.val = 4

====
